---- MODULE Spec2Model ----
(***************************************************************************)
(* A model of optitrack_motive: the bounded camera-description fetch       *)
(* (motive_stream.fetch_camera_descriptions), the snapshot writer          *)
(* (scripts/update_calib.main) and the snapshot store queries              *)
(* (optitrack_motive/calib).                                               *)
(*                                                                         *)
(* Strings are sequences of one-character strings, so that startswith,     *)
(* endswith, substring search, slicing, sorting and strptime are computed, *)
(* not assumed.                                                            *)
(***************************************************************************)
EXTENDS Integers, Sequences, FiniteSets, TLC

VARIABLES
    rootExists,   \* the calib root directory exists
    files,        \* immediate children of the root: name -> [kind, text]
    latestDir,    \* names of the files inside <root>/latest/
    call,         \* StoreSpec: the last store query, [op, room, target]
    ret,          \* StoreSpec: what that query returned
    now,          \* time.time(), in ticks since the model's first state
    start,        \* the UTC wall-clock minute at tick 0
    pc,           \* position of the calling thread in update_calib.main
    run,          \* arguments of the current Writer run: [room, timeout]
    runs,         \* Writer runs started so far
    listener,     \* client.data_description_listener
    started,      \* client.run('c') has returned True (delivery thread alive)
    reqSent,      \* the NAT_REQUEST_MODELDEF request has been sent
    shutdownCalled, \* client.shutdown() has been called
    holder,       \* data_descs_holder.get("data")
    event,        \* data_descs_event is set
    deadline,     \* the deadline computed at line 106
    exc,          \* how the fetch is leaving: none/return/timeout/start_failure/error
    fetched,      \* what the fetch returned: [cameras, client_ip]
    dpc,          \* position of the delivery thread inside on_data_descs
    dmsg,         \* the payload the delivery thread is handing over
    deliveries,   \* callback invocations during the current fetch
    outcome,      \* how the last Writer run ended
    written,      \* history: names of the snapshots Writer runs have written
    prev,         \* history: the Writer run that completed before the last one
    last          \* history: the last completed Writer run, [room, payload, outcome, changed]

storeVars == <<rootExists, files, latestDir>>
queryVars == <<call, ret>>
clockVars == <<now, start>>
fetchVars == <<listener, started, reqSent, shutdownCalled, holder, event,
               deadline, exc, fetched, dpc, dmsg, deliveries>>
runVars == <<run, runs, outcome, written, prev, last>>
writerVars == <<pc, runVars>>
vars == <<storeVars, queryVars, clockVars, fetchVars, writerVars>>

\* Python's None; the empty tuple compares with tuples, records and sequences alike
None == <<>>

(***************************************************************************)
(* Characters and strings                                                  *)
(***************************************************************************)

\* The characters used, in code-point order (Python compares str by code point).
Ascii == <<" ", "#", "-", ".", "0", "1", "2", "3", "4", "5", "6", "7", "8", "9",
           ":", "T", "_", "a", "b", "c", "e", "i", "j", "k", "l", "n", "o", "p", "s",
           "t", "u", "x">>

Ord(c) == CHOOSE i \in 1..Len(Ascii) : Ascii[i] = c

Digits == <<"0", "1", "2", "3", "4", "5", "6", "7", "8", "9">>

IsDigit(c) == \E i \in 1..10 : Digits[i] = c

DigitVal(c) == (CHOOSE i \in 1..10 : Digits[i] = c) - 1

Min(a, b) == IF a <= b THEN a ELSE b

\* str.__lt__
StrLess(a, b) ==
    \E i \in 1..(Min(Len(a), Len(b)) + 1) :
        /\ \A j \in 1..(i - 1) : a[j] = b[j]
        /\ \/ i > Len(a) /\ i <= Len(b)
           \/ i <= Len(a) /\ i <= Len(b) /\ Ord(a[i]) < Ord(b[i])

\* str.startswith
StartsWith(s, p) == Len(p) <= Len(s) /\ SubSeq(s, 1, Len(p)) = p

\* str.endswith
EndsWith(s, x) == Len(x) <= Len(s) /\ SubSeq(s, Len(s) - Len(x) + 1, Len(s)) = x

\* sub in s
Contains(s, sub) ==
    \E i \in 1..(Len(s) - Len(sub) + 1) : SubSeq(s, i, i + Len(sub) - 1) = sub

DotJson == <<".", "j", "s", "o", "n">>
Latest == <<"l", "a", "t", "e", "s", "t">>
CalibUnderscore == <<"c", "a", "l", "i", "b", "_">>

\* f"{room}_" if room else "calib_"   (room "" and room None are both falsy)
RoomPrefix(room) == IF room # <<>> THEN room \o <<"_">> ELSE CalibUnderscore

(***************************************************************************)
(* Instants: <<year, month, day, hour, minute>>                            *)
(***************************************************************************)

IsLeap(y) == (y % 4 = 0 /\ y % 100 # 0) \/ y % 400 = 0

DaysInMonth(y, m) ==
    IF m = 2 THEN (IF IsLeap(y) THEN 29 ELSE 28)
    ELSE IF m \in {4, 6, 9, 11} THEN 30 ELSE 31

\* datetime.__le__ on naive datetimes, through an order-preserving key
InstKey(t) == (((t[1] * 13 + t[2]) * 32 + t[3]) * 24 + t[4]) * 60 + t[5]

InstLE(a, b) == InstKey(a) <= InstKey(b)

NextMinute(t) ==
    IF t[5] < 59 THEN <<t[1], t[2], t[3], t[4], t[5] + 1>>
    ELSE IF t[4] < 23 THEN <<t[1], t[2], t[3], t[4] + 1, 0>>
    ELSE IF t[3] < DaysInMonth(t[1], t[2]) THEN <<t[1], t[2], t[3] + 1, 0, 0>>
    ELSE IF t[2] < 12 THEN <<t[1], t[2] + 1, 1, 0, 0>>
    ELSE <<t[1] + 1, 1, 1, 0, 0>>

RECURSIVE AddMinutes(_, _)
AddMinutes(t, n) == IF n = 0 THEN t ELSE AddMinutes(NextMinute(t), n - 1)

Pad2(n) == <<Digits[(n \div 10) + 1], Digits[(n % 10) + 1]>>

\* time.strftime("%y%m%d_%H%M", t)
Strftime(t) ==
    Pad2(t[1] % 100) \o Pad2(t[2]) \o Pad2(t[3]) \o <<"_">> \o Pad2(t[4]) \o Pad2(t[5])

\* int() of one or two digit characters
Num(s) == IF Len(s) = 1 THEN DigitVal(s[1]) ELSE DigitVal(s[1]) * 10 + DigitVal(s[2])

\* the regular expressions datetime.strptime compiles the directives into
MatchesMonth(s) ==
    \/ Len(s) = 2 /\ s[1] = "1" /\ s[2] \in {"0", "1", "2"}
    \/ Len(s) = 2 /\ s[1] = "0" /\ IsDigit(s[2]) /\ s[2] # "0"
    \/ Len(s) = 1 /\ IsDigit(s[1]) /\ s[1] # "0"

MatchesDay(s) ==
    \/ Len(s) = 2 /\ s[1] = "3" /\ s[2] \in {"0", "1"}
    \/ Len(s) = 2 /\ s[1] \in {"1", "2"} /\ IsDigit(s[2])
    \/ Len(s) = 2 /\ s[1] = "0" /\ IsDigit(s[2]) /\ s[2] # "0"
    \/ Len(s) = 1 /\ IsDigit(s[1]) /\ s[1] # "0"
    \/ Len(s) = 2 /\ s[1] = " " /\ IsDigit(s[2]) /\ s[2] # "0"

MatchesHour(s) ==
    \/ Len(s) = 2 /\ s[1] = "2" /\ s[2] \in {"0", "1", "2", "3"}
    \/ Len(s) = 2 /\ s[1] \in {"0", "1"} /\ IsDigit(s[2])
    \/ Len(s) = 1 /\ IsDigit(s[1])

MatchesMinute(s) ==
    \/ Len(s) = 2 /\ s[1] \in {"0", "1", "2", "3", "4", "5"} /\ IsDigit(s[2])
    \/ Len(s) = 1 /\ IsDigit(s[1])

\* The field widths <<m, d, H, M>> under which the token matches
\* (\d\d)(month)(day)_(hour)(minute) and is consumed whole.
Splits(token) ==
    {w \in {1, 2} \X {1, 2} \X {1, 2} \X {1, 2} :
        /\ Len(token) = 3 + w[1] + w[2] + w[3] + w[4]
        /\ IsDigit(token[1]) /\ IsDigit(token[2])
        /\ MatchesMonth(SubSeq(token, 3, 2 + w[1]))
        /\ MatchesDay(SubSeq(token, 3 + w[1], 2 + w[1] + w[2]))
        /\ token[3 + w[1] + w[2]] = "_"
        /\ MatchesHour(SubSeq(token, 4 + w[1] + w[2], 3 + w[1] + w[2] + w[3]))
        /\ MatchesMinute(SubSeq(token, 4 + w[1] + w[2] + w[3], Len(token)))}

\* the regex engine tries the two-character alternative of each field first
Preferred(S) ==
    CHOOSE w \in S : \A v \in S :
        \/ v = w
        \/ \E i \in 1..4 : (\A j \in 1..(i - 1) : v[j] = w[j]) /\ v[i] < w[i]

\* a faulty variant of PivotYear: every two-digit year is taken to be in 2000-2099
PivotYearAll2000(yy) == 2000 + yy

\* %y: values 69-99 map to 1969-1999, values 0-68 to 2000-2068
PivotYear(yy) == IF yy <= 68 THEN 2000 + yy ELSE 1900 + yy

\* datetime.strptime(token, "%y%m%d_%H%M"); None stands for ValueError
Strptime(token) ==
    IF Splits(token) = {} THEN None
    ELSE LET w == Preferred(Splits(token))
             y == PivotYear(Num(SubSeq(token, 1, 2)))
             mo == Num(SubSeq(token, 3, 2 + w[1]))
             dtxt == SubSeq(token, 3 + w[1], 2 + w[1] + w[2])
             d == IF dtxt[1] = " " THEN DigitVal(dtxt[2]) ELSE Num(dtxt)
             h == Num(SubSeq(token, 4 + w[1] + w[2], 3 + w[1] + w[2] + w[3]))
             mi == Num(SubSeq(token, 4 + w[1] + w[2] + w[3], Len(token)))
         IN IF d > DaysInMonth(y, mo) THEN None ELSE <<y, mo, d, h, mi>>

\* "%Y-%m-%d": (\d\d\d\d)-(month)-(day), consumed whole
SplitsDate(text) ==
    {w \in {1, 2} \X {1, 2} :
        /\ Len(text) = 6 + w[1] + w[2]
        /\ \A i \in 1..4 : IsDigit(text[i])
        /\ text[5] = "-"
        /\ MatchesMonth(SubSeq(text, 6, 5 + w[1]))
        /\ text[6 + w[1]] = "-"
        /\ MatchesDay(SubSeq(text, 7 + w[1], Len(text)))}

Year4(s) == DigitVal(s[1]) * 1000 + DigitVal(s[2]) * 100 + DigitVal(s[3]) * 10 + DigitVal(s[4])

DayNum(dtxt) == IF dtxt[1] = " " THEN DigitVal(dtxt[2]) ELSE Num(dtxt)

\* datetime.strptime(text, "%Y-%m-%d")
StrptimeDate(text) ==
    IF SplitsDate(text) = {} THEN None
    ELSE LET w == CHOOSE v \in SplitsDate(text) : \A u \in SplitsDate(text) : u[1] <= v[1]
             y == Year4(text)
             mo == Num(SubSeq(text, 6, 5 + w[1]))
             d == DayNum(SubSeq(text, 7 + w[1], Len(text)))
         IN IF y = 0 \/ d > DaysInMonth(y, mo) THEN None ELSE <<y, mo, d, 0, 0>>

\* "%Y-%m-%dT%H:%M"
SplitsDateTime(text) ==
    {w \in {1, 2} \X {1, 2} \X {1, 2} \X {1, 2} :
        /\ Len(text) = 8 + w[1] + w[2] + w[3] + w[4]
        /\ \A i \in 1..4 : IsDigit(text[i])
        /\ text[5] = "-"
        /\ MatchesMonth(SubSeq(text, 6, 5 + w[1]))
        /\ text[6 + w[1]] = "-"
        /\ MatchesDay(SubSeq(text, 7 + w[1], 6 + w[1] + w[2]))
        /\ text[7 + w[1] + w[2]] = "T"
        /\ MatchesHour(SubSeq(text, 8 + w[1] + w[2], 7 + w[1] + w[2] + w[3]))
        /\ text[8 + w[1] + w[2] + w[3]] = ":"
        /\ MatchesMinute(SubSeq(text, 9 + w[1] + w[2] + w[3], Len(text)))}

\* datetime.strptime(text, "%Y-%m-%dT%H:%M")
StrptimeDateTime(text) ==
    IF SplitsDateTime(text) = {} THEN None
    ELSE LET w == Preferred(SplitsDateTime(text))
             y == Year4(text)
             mo == Num(SubSeq(text, 6, 5 + w[1]))
             d == DayNum(SubSeq(text, 7 + w[1], 6 + w[1] + w[2]))
             h == Num(SubSeq(text, 8 + w[1] + w[2], 7 + w[1] + w[2] + w[3]))
             mi == Num(SubSeq(text, 9 + w[1] + w[2] + w[3], Len(text)))
         IN IF y = 0 \/ d > DaysInMonth(y, mo) THEN None ELSE <<y, mo, d, h, mi>>

\* str.strip() of the blanks the alphabet has
RECURSIVE Strip(_)
Strip(s) ==
    IF s # <<>> /\ s[1] = " " THEN Strip(Tail(s))
    ELSE IF s # <<>> /\ s[Len(s)] = " " THEN Strip(SubSeq(s, 1, Len(s) - 1))
    ELSE s

(***************************************************************************)
(* Documents and files                                                     *)
(***************************************************************************)

Return(v) == <<"return", v>>
Raise(e) == <<"raise", e>>

\* text that is no JSON document
Malformed == <<"malformed">>

DocKeys == <<"cameras", "client_ip", "format_version", "generated_at_utc", "room", "server_ip">>

\* json.dumps(payload, sort_keys=True, ...): the members in key order.
\* indent=2 (files) and separators=(",", ":") (hashing) differ in white space only.
JsonDumps(payload) == [i \in 1..Len(DocKeys) |-> <<DocKeys[i], payload[DocKeys[i]]>>]

\* json.loads(text): the object, or the JSONDecodeError
JsonLoads(text) ==
    IF text = Malformed THEN Raise("JSONDecodeError")
    ELSE Return([k \in {text[i][1] : i \in 1..Len(text)} |->
                    (CHOOSE m \in {text[i] : i \in 1..Len(text)} : m[1] = k)[2]])

File(text) == [kind |-> "file", text |-> text]
Dir == [kind |-> "dir", text |-> <<>>]

\* Path.read_text(): the text of a regular file
ReadText(entry) ==
    IF entry.kind = "dir" THEN Raise("IsADirectoryError") ELSE Return(entry.text)

\* the root directory as the store's functions see it
Root == [exists |-> rootExists, files |-> files, latest |-> latestDir]

RootPath(name) == <<"root", name>>
LegacyPath(name) == <<"root", "latest", name>>
PathName(p) == p[Len(p)]

(***************************************************************************)
(* optitrack_motive/calib: the snapshot store                              *)
(***************************************************************************)

_latest_filename(room) ==
    IF room # <<>> THEN room \o <<"_">> \o Latest \o DotJson
    ELSE CalibUnderscore \o Latest \o DotJson

_parse_calib_timestamp(name, room) ==
    LET prefix == RoomPrefix(room) IN
    IF ~StartsWith(name, prefix) \/ ~EndsWith(name, DotJson) THEN None
    ELSE Strptime(SubSeq(name, Len(prefix) + 1, Len(name) - 5))

\* sorted(names): ascending by str comparison
RECURSIVE SortedNames(_)
SortedNames(S) ==
    IF S = {} THEN <<>>
    ELSE LET m == CHOOSE x \in S : \A y \in S : x = y \/ StrLess(x, y)
         IN <<m>> \o SortedNames(S \ {m})

\* a faulty variant of IsCalibEntry: the reserved "latest" names are not excluded
IsCalibEntryKeepsLatest(root, name, prefix) ==
    /\ root.files[name].kind = "file"
    /\ StartsWith(name, prefix)
    /\ EndsWith(name, DotJson)

\* the filter of list_calibs on one directory entry
IsCalibEntry(root, name, prefix) ==
    /\ root.files[name].kind = "file"
    /\ StartsWith(name, prefix)
    /\ EndsWith(name, DotJson)
    /\ ~Contains(name, Latest)

list_calibs(root, room) ==
    IF ~root.exists THEN <<>>
    ELSE LET prefix == RoomPrefix(room)
             calibs == {n \in DOMAIN root.files : IsCalibEntry(root, n, prefix)}
             names == SortedNames(calibs)
         IN [i \in 1..Len(names) |-> RootPath(names[i])]

list_calib_names(root, room) ==
    [i \in 1..Len(list_calibs(root, room)) |-> PathName(list_calibs(root, room)[i])]

list_snapshots(root, room) == list_calibs(root, room)

\* a faulty variant of latest_json_path: the two legacy locations are tried in the other order
latest_json_path_LegacySwapped(root, room) ==
    LET calibs == list_calibs(root, room)
        legacy_name == IF room # <<>> THEN room \o <<"_">> \o <<"c", "a", "l", "i", "b">> \o DotJson
                       ELSE <<"c", "a", "l", "i", "b">> \o DotJson
    IN IF calibs # <<>> THEN calibs[Len(calibs)]
       ELSE IF root.exists /\ _latest_filename(room) \in DOMAIN root.files
            THEN RootPath(_latest_filename(room))
       ELSE IF root.exists /\ legacy_name \in DOMAIN root.latest THEN LegacyPath(legacy_name)
       ELSE None

latest_json_path(root, room) ==
    LET calibs == list_calibs(root, room)
        legacy_name == IF room # <<>> THEN room \o <<"_">> \o <<"c", "a", "l", "i", "b">> \o DotJson
                       ELSE <<"c", "a", "l", "i", "b">> \o DotJson
    IN IF calibs # <<>> THEN calibs[Len(calibs)]
       ELSE IF root.exists /\ legacy_name \in DOMAIN root.latest THEN LegacyPath(legacy_name)
       ELSE IF root.exists /\ _latest_filename(room) \in DOMAIN root.files
            THEN RootPath(_latest_filename(room))
       ELSE None

\* the directory entry a path of the root names
EntryAt(root, path) ==
    IF Len(path) = 3 THEN root.latest[PathName(path)] ELSE root.files[PathName(path)]

load_latest(root, room) ==
    LET path == latest_json_path(root, room) IN
    IF path = None THEN Return(None)
    ELSE LET text == ReadText(EntryAt(root, path)) IN
         IF text[1] = "raise" THEN text ELSE JsonLoads(text[2])

\* the three formats tried in order; None when none parses
ParseTarget(target) ==
    IF target.type = "datetime" THEN target.value
    ELSE LET text == Strip(target.value) IN
         IF StrptimeDate(text) # None THEN StrptimeDate(text)
         ELSE IF StrptimeDateTime(text) # None THEN StrptimeDateTime(text)
         ELSE Strptime(text)

\* a faulty variant of SortByTs: the candidates are left in listing (file name) order
SortByTsSkipped(items) == items

\* list.sort(key=lambda item: item[0]): stable, ascending by timestamp
RECURSIVE SortByTs(_)
SortByTs(items) ==
    IF items = <<>> THEN <<>>
    ELSE LET rest == SortByTs(SubSeq(items, 1, Len(items) - 1))
             x == items[Len(items)]
             k == Cardinality({i \in 1..Len(rest) : InstLE(rest[i][1], x[1])})
         IN SubSeq(rest, 1, k) \o <<x>> \o SubSeq(rest, k + 1, Len(rest))

\* the candidates loop: entries that decode to a timestamp <= target_dt, in list order
RECURSIVE Candidates(_, _, _)
Candidates(paths, room, target_dt) ==
    IF paths = <<>> THEN <<>>
    ELSE LET ts == _parse_calib_timestamp(PathName(Head(paths)), room)
             rest == Candidates(Tail(paths), room, target_dt)
         IN IF ts = None THEN rest
            ELSE IF InstLE(ts, target_dt) THEN <<<<ts, Head(paths)>>>> \o rest
            ELSE rest

find_calib_at_or_before(root, target, room) ==
    LET target_dt == ParseTarget(target) IN
    IF target_dt = None THEN Raise("ValueError")
    ELSE LET candidates == SortByTs(Candidates(list_calibs(root, room), room, target_dt))
         IN IF candidates = <<>> THEN Return(None)
            ELSE Return(candidates[Len(candidates)][2])

(***************************************************************************)
(* Bounds and input sets                                                   *)
(***************************************************************************)

\* most entries a root directory starts with in StoreSpec
MaxFiles == 3

RoomA == <<"a">>
NoRoom == <<>>
Rooms == {RoomA, NoRoom}

T1999 == <<1999, 12, 31, 23, 59>>
T2000 == <<2000, 1, 1, 0, 0>>
T2026 == <<2026, 2, 5, 10, 0>>

\* the snapshot a Writer run for `room` at minute t names
SnapshotName(room, t) == RoomPrefix(room) \o Strftime(t) \o DotJson

NameUnpadded == <<"a", "_", "2", "6", "2", "5", "_", "1", "0", "0">> \o DotJson
NameBackup == <<"a", "_", "b", "a", "c", "k", "u", "p">> \o DotJson
NameText == <<"a", "_">> \o Strftime(T2026) \o <<".", "t", "x", "t">>
NameNoPrefix == <<"x">> \o Strftime(T2026) \o DotJson

\* names a root directory may hold before any query
StoreNames ==
    {SnapshotName(RoomA, T1999), SnapshotName(RoomA, T2000), SnapshotName(RoomA, T2026),
     SnapshotName(NoRoom, T2026), SnapshotName(<<"a", "_", "b">>, T2026),
     NameUnpadded, NameBackup, NameText, NameNoPrefix,
     _latest_filename(RoomA), _latest_filename(NoRoom)}

LegacyNames == {<<"a", "_", "c", "a", "l", "i", "b">> \o DotJson,
                <<"c", "a", "l", "i", "b">> \o DotJson}

\* a well-formed document, tagged so that two files differ in content
SampleDoc(tag) ==
    [format_version |-> 1, generated_at_utc |-> tag, server_ip |-> "server",
     client_ip |-> "client", room |-> "", cameras |-> <<>>]

EntryOptions(name) ==
    IF name \in {SnapshotName(RoomA, T2026), SnapshotName(NoRoom, T2026)}
    THEN {File(JsonDumps(SampleDoc(name))), File(Malformed), Dir}
    ELSE IF name \in {_latest_filename(RoomA)} \cup LegacyNames
    THEN {File(JsonDumps(SampleDoc(name))), File(Malformed)}
    ELSE {File(JsonDumps(SampleDoc(name)))}

\* every directory content over `names` with at most `most` entries
Directories(names, most) ==
    UNION {{f \in [S -> UNION {EntryOptions(n) : n \in S}] :
                \A n \in S : f[n] \in EntryOptions(n)} :
           S \in {T \in SUBSET names : Cardinality(T) <= most}}

Datetime(t) == [type |-> "datetime", value |-> t]
Str(text) == [type |-> "str", value |-> text]

Targets ==
    {Datetime(T1999), Datetime(T2026), Datetime(<<2026, 2, 4, 23, 59>>),
     Datetime(<<1969, 1, 1, 0, 0>>),
     Str(<<"2", "0", "2", "6", "-", "0", "2", "-", "0", "5">>),
     Str(<<" ", "2", "0", "0", "0", "-", "1", "-", "1", "T", "0", ":", "0", "0">>),
     Str(Strftime(T2026)),
     Str(<<"2", "0", "2", "6">>)}

(***************************************************************************)
(* The state before anything runs                                          *)
(***************************************************************************)

NoCall == [op |-> "none", room |-> NoRoom, target |-> None]

InitIdle ==
    /\ call = NoCall /\ ret = None
    /\ now = 0
    /\ pc = "idle" /\ run = None
    /\ listener = None /\ started = FALSE /\ reqSent = FALSE /\ shutdownCalled = FALSE
    /\ holder = None /\ event = FALSE /\ deadline = 0 /\ exc = "none" /\ fetched = None
    /\ dpc = "idle" /\ dmsg = None /\ deliveries = 0
    /\ outcome = "none" /\ written = {} /\ prev = None /\ last = None

(***************************************************************************)
(* optitrack_python/motive_stream: the bounded description fetch           *)
(***************************************************************************)

\* most Writer runs in one behaviour
MaxRuns == 2
\* the wall clock stops advancing on its own at this tick
MaxClock == 3
\* longest fetch timeout, in ticks (one tick is one 0.1 s wait slice)
MaxTimeout == 2
\* most callback invocations the delivery thread makes during one fetch
MaxDeliveries == 2
\* ticks in one UTC minute
TicksPerMinute == 2

Auto == <<"a", "u", "t", "o">>
Localhost == <<"l", "o", "c", "a", "l", "h", "o", "s", "t">>
Loopback == <<"1", "2", "7", ".", "0", ".", "0", ".", "1">>
Wildcard == <<"0", ".", "0", ".", "0", ".", "0">>
DEFAULT_SERVER_IP == <<"1", "0", ".", "4", "0", ".", "4", "9", ".", "4", "7">>
InterfaceIp == <<"1", "0", ".", "4", "0", ".", "4", "9", ".", "2">>

\* what the throwaway UDP probe yields: the local endpoint, or 0.0.0.0 on OSError
ProbeResults == {InterfaceIp, Wildcard}

\* resolve_client_ip, for lower-case arguments; probe is the outcome of the socket probe
resolve_client_ip(server_ip, requested, probe) ==
    IF requested # <<>> /\ requested \notin {<<>>, Auto} THEN requested
    ELSE IF StartsWith(server_ip, <<"1", "2", "7", ".">>) \/ server_ip = Localhost THEN Loopback
    ELSE probe

\* the model definitions the server may answer with
DataDescs ==
    {[camera_list |-> <<[name |-> <<"c", "#", " ", "7", "1">>, position |-> <<1, 2>>,
                         orientation |-> <<0, 0, 1, 0, 9>>]>>],
     [camera_list |-> <<[name |-> <<"c", "a">>, position |-> <<1, 2, 4, 8>>,
                         orientation |-> <<5>>]>>]}

\* int() of a run of digits
RECURSIVE IntOf(_)
IntOf(ds) == IF ds = <<>> THEN 0 ELSE IntOf(SubSeq(ds, 1, Len(ds) - 1)) * 10 + DigitVal(ds[Len(ds)])

\* the end of the longest run of characters from position i on that satisfy isIn
RECURSIVE RunEnd(_, _, _)
RunEnd(s, i, chars) == IF i <= Len(s) /\ s[i] \in chars THEN RunEnd(s, i + 1, chars) ELSE i

DigitSet == {Digits[i] : i \in 1..10}

\* re.search(r"#\s*(\d+)", name): int of the first match's digits, None without a match
SerialOf(name) ==
    LET hits == {i \in 1..Len(name) :
                    /\ name[i] = "#"
                    /\ RunEnd(name, RunEnd(name, i + 1, {" "}), DigitSet)
                         > RunEnd(name, i + 1, {" "})}
    IN IF hits = {} THEN None
       ELSE LET i == CHOOSE h \in hits : \A g \in hits : h <= g
                from == RunEnd(name, i + 1, {" "})
            IN <<IntOf(SubSeq(name, from, RunEnd(name, from, DigitSet) - 1))>>

\* a faulty variant of ParseCamera: the slices [:3] and [:4] of lines 52-53 are left out
ParseCameraUnsliced(camera_desc) ==
    [name |-> camera_desc.name,
     serial |-> SerialOf(camera_desc.name),
     position |-> IF Len(camera_desc.position) < 3
                  THEN SubSeq(camera_desc.position \o <<0, 0, 0>>, 1, 3)
                  ELSE camera_desc.position,
     orientation |-> IF Len(camera_desc.orientation) < 4
                     THEN SubSeq(camera_desc.orientation \o <<0, 0, 0, 1>>, 1, 4)
                     ELSE camera_desc.orientation]

\* one camera of _parse_camera_descriptions
ParseCamera(camera_desc) ==
    LET raw_position == IF Len(camera_desc.position) < 3
                        THEN SubSeq(camera_desc.position \o <<0, 0, 0>>, 1, 3)
                        ELSE camera_desc.position
        raw_orientation == IF Len(camera_desc.orientation) < 4
                           THEN SubSeq(camera_desc.orientation \o <<0, 0, 0, 1>>, 1, 4)
                           ELSE camera_desc.orientation
    IN [name |-> camera_desc.name,
        serial |-> SerialOf(camera_desc.name),
        position |-> SubSeq(raw_position, 1, 3),
        orientation |-> SubSeq(raw_orientation, 1, 4)]

\* getattr(data_descs, "camera_list", []) is [] for None
_parse_camera_descriptions(data_descs) ==
    IF data_descs = None THEN <<>>
    ELSE [i \in 1..Len(data_descs.camera_list) |-> ParseCamera(data_descs.camera_list[i])]

on_data_descs == <<"on_data_descs">>

\* main, update_calib.py lines 40-76, up to the call of fetch_camera_descriptions; a
\* room's preset has server_ip "localhost" and client_ip "auto"
StartRun(room, timeout) ==
    /\ pc = "idle"
    /\ runs < MaxRuns
    /\ run' = [room |-> room, timeout |-> timeout,
               server_ip |-> IF room # <<>> THEN Localhost ELSE DEFAULT_SERVER_IP,
               client_ip |-> Auto]
    /\ runs' = runs + 1
    /\ pc' = "fetching"
    /\ outcome' = "running"
    /\ UNCHANGED <<storeVars, queryVars, clockVars, fetchVars, written, prev, last>>

\* fetch_camera_descriptions, lines 73-83: the client IP is resolved and a client is
\* constructed and configured
Construct(probe) ==
    /\ pc = "fetching"
    /\ run' = [run EXCEPT !.client_ip = resolve_client_ip(run.server_ip, run.client_ip, probe)]
    /\ pc' = "register"
    /\ UNCHANGED <<storeVars, queryVars, clockVars, fetchVars, runs, outcome, written, prev, last>>

\* lines 85-92
Register ==
    /\ pc = "register"
    /\ listener' = on_data_descs
    /\ pc' = "run"
    /\ UNCHANGED <<storeVars, queryVars, clockVars, runVars, started, reqSent,
                   shutdownCalled, holder, event, deadline, exc, fetched, dpc, dmsg, deliveries>>

\* line 94, client.run('c') returns True
RunClientOk ==
    /\ pc = "run"
    /\ started' = TRUE
    /\ pc' = "send"
    /\ UNCHANGED <<storeVars, queryVars, clockVars, runVars, listener, reqSent,
                   shutdownCalled, holder, event, deadline, exc, fetched, dpc, dmsg, deliveries>>

\* lines 94-96, client.run('c') returns False
RunClientFails ==
    /\ pc = "run"
    /\ listener' = None
    /\ exc' = "start_failure"
    /\ pc' = "exit"
    /\ UNCHANGED <<storeVars, queryVars, clockVars, runVars, started, reqSent,
                   shutdownCalled, holder, event, deadline, fetched, dpc, dmsg, deliveries>>

\* lines 99-104
SendRequest ==
    /\ pc = "send"
    /\ reqSent' = TRUE
    /\ pc' = "deadline"
    /\ UNCHANGED <<storeVars, queryVars, clockVars, runVars, listener, started,
                   shutdownCalled, holder, event, deadline, exc, fetched, dpc, dmsg, deliveries>>

\* lines 99-104, send_request raises (the socket is gone): on to the finally block
SendRequestRaises ==
    /\ pc = "send"
    /\ exc' = "error"
    /\ pc' = "finally"
    /\ UNCHANGED <<storeVars, queryVars, clockVars, runVars, listener, started, reqSent,
                   shutdownCalled, holder, event, deadline, fetched, dpc, dmsg, deliveries>>

\* line 106
SetDeadline ==
    /\ pc = "deadline"
    /\ deadline' = now + run.timeout
    /\ pc' = "loop"
    /\ UNCHANGED <<storeVars, queryVars, clockVars, runVars, listener, started, reqSent,
                   shutdownCalled, holder, event, exc, fetched, dpc, dmsg, deliveries>>

\* line 107, the loop is entered
LoopEnter ==
    /\ pc = "loop"
    /\ now < deadline
    /\ pc' = "wait"
    /\ UNCHANGED <<storeVars, queryVars, clockVars, runVars, fetchVars>>

\* lines 107 and 113, the deadline has passed
LoopTimeout ==
    /\ pc = "loop"
    /\ ~(now < deadline)
    /\ exc' = "timeout"
    /\ pc' = "finally"
    /\ UNCHANGED <<storeVars, queryVars, clockVars, runVars, listener, started, reqSent,
                   shutdownCalled, holder, event, deadline, fetched, dpc, dmsg, deliveries>>

\* a faulty variant of SliceEnd: the wait returns without any time having passed
SliceEndStuck(t) == t

\* the time at which a wait slice entered at `t` with the event unset returns
SliceEnd(t) == t + 1

\* line 108, the event is set: wait returns True at once
WaitSignaled ==
    /\ pc = "wait"
    /\ event
    /\ pc' = "got"
    /\ UNCHANGED <<storeVars, queryVars, clockVars, runVars, fetchVars>>

\* line 108, the event is not set: wait blocks for the slice and returns False
WaitSliceElapsed ==
    /\ pc = "wait"
    /\ ~event
    /\ now' = SliceEnd(now)
    /\ pc' = "loop"
    /\ UNCHANGED <<storeVars, queryVars, start, runVars, fetchVars>>

\* lines 109-111
TakeResult ==
    /\ pc = "got"
    /\ fetched' = [cameras |-> _parse_camera_descriptions(holder), client_ip |-> run.client_ip]
    /\ exc' = "return"
    /\ pc' = "finally"
    /\ UNCHANGED <<storeVars, queryVars, clockVars, runVars, listener, started, reqSent,
                   shutdownCalled, holder, event, deadline, dpc, dmsg, deliveries>>

\* a faulty variant of Unregister: the finally block goes on to shutdown with the
\* listener still registered
UnregisterSkipped ==
    /\ pc = "finally"
    /\ pc' = "shutdown"
    /\ UNCHANGED <<storeVars, queryVars, clockVars, runVars, fetchVars>>

\* line 115
Unregister ==
    /\ pc = "finally"
    /\ listener' = None
    /\ pc' = "shutdown"
    /\ UNCHANGED <<storeVars, queryVars, clockVars, runVars, started, reqSent,
                   shutdownCalled, holder, event, deadline, exc, fetched, dpc, dmsg, deliveries>>

\* line 116; shutdown joins the delivery thread, so it returns once the thread is
\* outside the callback
Shutdown ==
    /\ pc = "shutdown"
    /\ dpc = "idle"
    /\ shutdownCalled' = TRUE
    /\ pc' = "exit"
    /\ UNCHANGED <<storeVars, queryVars, clockVars, runVars, listener, started, reqSent,
                   holder, event, deadline, exc, fetched, dpc, dmsg, deliveries>>

\* the delivery thread receives a model definition and calls the registered listener
DeliverInvoke(data_descs) ==
    /\ started /\ ~shutdownCalled /\ reqSent
    /\ dpc = "idle"
    /\ listener # None
    /\ deliveries < MaxDeliveries
    /\ dmsg' = data_descs
    /\ deliveries' = deliveries + 1
    /\ dpc' = "store"
    /\ UNCHANGED <<storeVars, queryVars, clockVars, writerVars, listener, started, reqSent,
                   shutdownCalled, holder, event, deadline, exc, fetched>>

\* a faulty variant of CallbackStore: the callback's two statements are swapped, the
\* event is set before the payload is stored
CallbackStoreSetsEventFirst ==
    /\ dpc = "store"
    /\ event' = TRUE
    /\ dpc' = "set"
    /\ UNCHANGED <<storeVars, queryVars, clockVars, writerVars, listener, started, reqSent,
                   shutdownCalled, holder, deadline, exc, fetched, dmsg, deliveries>>

\* on_data_descs, line 89
CallbackStore ==
    /\ dpc = "store"
    /\ holder' = dmsg
    /\ dpc' = "set"
    /\ UNCHANGED <<storeVars, queryVars, clockVars, writerVars, listener, started, reqSent,
                   shutdownCalled, event, deadline, exc, fetched, dmsg, deliveries>>

\* on_data_descs, line 90
CallbackSet ==
    /\ dpc = "set"
    /\ event' = TRUE
    /\ dpc' = "idle"
    /\ dmsg' = None
    /\ UNCHANGED <<storeVars, queryVars, clockVars, writerVars, listener, started, reqSent,
                   shutdownCalled, holder, deadline, exc, fetched, deliveries>>

\* time passes; the clock is read at lines 106 and 107 and by main at lines 79-82, so
\* it is enough to let it advance right before those reads
Tick ==
    /\ pc \in {"deadline", "loop", "commit"}
    /\ now < MaxClock
    /\ now' = now + 1
    /\ UNCHANGED <<storeVars, queryVars, start, fetchVars, writerVars>>

(***************************************************************************)
(* scripts/update_calib: the snapshot writer                               *)
(***************************************************************************)

\* time.gmtime() at tick t
GmTime(t) == AddMinutes(start, t \div TicksPerMinute)

_timestamp_utc == Strftime(GmTime(now))

\* time.strftime("%Y-%m-%dT%H:%M:%SZ", time.gmtime()): the minute and the part of it
GeneratedAtUtc == <<GmTime(now), now % TicksPerMinute>>

\* hashlib.sha256 of a text, taken to be free of collisions
Sha256(text) == <<"sha256", text>>

_hash_payload(payload) == Sha256(JsonDumps(payload))

\* calib_root.glob(f"{room_prefix}*.json")
GlobMatches(name, room_prefix) ==
    /\ Len(name) >= Len(room_prefix) + Len(DotJson)
    /\ StartsWith(name, room_prefix)
    /\ EndsWith(name, DotJson)

\* lines 95-98: the last of the sorted glob matches, None without one
LatestExisting(fs, room_prefix) ==
    LET matches == {n \in DOMAIN fs :
                        /\ GlobMatches(n, room_prefix)
                        /\ EndsWith(n, DotJson) /\ StartsWith(n, room_prefix)}
    IN IF matches = {} THEN None ELSE SortedNames(matches)[Cardinality(matches)]

\* lines 100-104: the existing payload, None when reading or parsing raises
ExistingPayload(fs, latest_existing) ==
    IF latest_existing = None THEN None
    ELSE LET text == ReadText(fs[latest_existing]) IN
         IF text[1] = "raise" THEN None
         ELSE IF JsonLoads(text[2])[1] = "raise" THEN None
         ELSE JsonLoads(text[2])[2]

\* lines 80-87
Payload ==
    [format_version |-> 1, generated_at_utc |-> GeneratedAtUtc, server_ip |-> run.server_ip,
     client_ip |-> fetched.client_ip, room |-> run.room, cameras |-> fetched.cameras]

\* lines 92-93
SnapshotPath == RoomPrefix(run.room) \o _timestamp_utc \o DotJson

\* a faulty variant of WriteTarget: the most recent snapshot is rewritten in place
WriteTargetLatest(snapshot_path, latest_existing) ==
    IF latest_existing # None THEN latest_existing ELSE snapshot_path

\* line 112: the file _write_json writes
WriteTarget(snapshot_path, latest_existing) == snapshot_path

\* Path.write_text
WriteText(fs, name, text) ==
    [n \in DOMAIN fs \cup {name} |-> IF n = name THEN File(text) ELSE fs[n]]

\* the locals of the fetch go out of scope
FetchLocalsGone ==
    /\ listener' = None /\ started' = FALSE /\ reqSent' = FALSE /\ shutdownCalled' = FALSE
    /\ holder' = None /\ event' = FALSE /\ deadline' = 0 /\ exc' = "none" /\ fetched' = None
    /\ deliveries' = 0

\* FetchSpec: the fetch is over, whatever main does with its result
FetchEnds ==
    /\ pc = "exit"
    /\ pc' = "idle"
    /\ outcome' = exc
    /\ run' = None
    /\ FetchLocalsGone
    /\ UNCHANGED <<storeVars, queryVars, clockVars, runs, written, prev, last, dpc, dmsg>>

\* what one call of fetch_camera_descriptions comes to: the cameras of a delivered
\* model definition, or one of the errors
FetchOutcomes ==
    {[exc |-> "return", cameras |-> _parse_camera_descriptions(d)] : d \in DataDescs}
    \cup {[exc |-> e, cameras |-> None] : e \in {"timeout", "start_failure", "error"}}

\* Spec: main, lines 70-76, the whole call of fetch_camera_descriptions
FetchCall(probe, result) ==
    /\ pc = "fetching"
    /\ exc' = result.exc
    /\ fetched' = IF result.exc = "return"
                  THEN [cameras |-> result.cameras,
                        client_ip |-> resolve_client_ip(run.server_ip, run.client_ip, probe)]
                  ELSE None
    /\ pc' = "exit"
    /\ UNCHANGED <<storeVars, queryVars, clockVars, runVars, listener, started, reqSent,
                   shutdownCalled, holder, event, deadline, dpc, dmsg, deliveries>>

\* the fetch returns to main (line 77)
FetchReturns ==
    /\ pc = "exit"
    /\ exc = "return"
    /\ pc' = "commit"
    /\ UNCHANGED <<storeVars, queryVars, clockVars, runVars, fetchVars>>

\* a faulty variant of FetchRaises: the root directory was created before the fetch
FetchRaisesAfterMkdir ==
    /\ pc = "exit"
    /\ exc # "return"
    /\ pc' = "idle"
    /\ outcome' = "failed"
    /\ run' = None
    /\ rootExists' = TRUE
    /\ FetchLocalsGone
    /\ UNCHANGED <<files, latestDir, queryVars, clockVars, runs, written, prev, last, dpc, dmsg>>

\* the fetch raises; main does not catch it and the process ends
FetchRaises ==
    /\ pc = "exit"
    /\ exc # "return"
    /\ pc' = "idle"
    /\ outcome' = "failed"
    /\ run' = None
    /\ FetchLocalsGone
    /\ UNCHANGED <<storeVars, queryVars, clockVars, runs, written, prev, last, dpc, dmsg>>

\* main, lines 79-112
Commit ==
    /\ pc = "commit"
    /\ LET payload == Payload
           room_prefix == RoomPrefix(run.room)
           latest_existing == LatestExisting(files, room_prefix)
           existing_payload == ExistingPayload(files, latest_existing)
           target == WriteTarget(SnapshotPath, latest_existing)
           done(result, changed) ==
               /\ outcome' = result
               /\ prev' = last
               /\ last' = [room |-> run.room, payload |-> payload, outcome |-> result,
                           changed |-> changed]
       IN /\ rootExists' = TRUE
          /\ IF existing_payload # None /\ _hash_payload(existing_payload) = _hash_payload(payload)
             THEN /\ done("unchanged", ~rootExists)
                  /\ UNCHANGED <<files, written>>
             ELSE IF target \in DOMAIN files /\ files[target].kind = "dir"
             THEN /\ done("failed", ~rootExists)
                  /\ UNCHANGED <<files, written>>
             ELSE /\ done("written", TRUE)
                  /\ files' = WriteText(files, target, JsonDumps(payload))
                  /\ written' = written \cup {target}
    /\ pc' = "idle"
    /\ run' = None
    /\ FetchLocalsGone
    /\ UNCHANGED <<latestDir, queryVars, clockVars, runs, dpc, dmsg>>

(***************************************************************************)
(* Spec: Writer runs, each with its fetch and the delivery thread          *)
(***************************************************************************)

T1999Before == <<1999, 12, 31, 23, 58>>

\* the wall clock when the first run starts
StartInstants == {T2026, T1999}

\* the root directories a first run may find
InitialRoots ==
    {[exists |-> FALSE, files |-> <<>>, latest |-> <<>>],
     [exists |-> TRUE, files |-> <<>>, latest |-> <<>>],
     [exists |-> TRUE,
      files |-> WriteText(<<>>, SnapshotName(RoomA, T1999Before), Malformed),
      latest |-> <<>>],
     [exists |-> TRUE,
      files |-> WriteText(<<>>, _latest_filename(RoomA),
                          JsonDumps(SampleDoc(_latest_filename(RoomA)))),
      latest |-> WriteText(<<>>, <<"a", "_", "c", "a", "l", "i", "b">> \o DotJson,
                           JsonDumps(SampleDoc(<<"a", "_", "c", "a", "l", "i", "b">>)))]}

Init ==
    /\ InitIdle
    /\ runs = 0
    /\ start \in StartInstants
    /\ \E root \in InitialRoots :
          rootExists = root.exists /\ files = root.files /\ latestDir = root.latest

Next ==
    \/ \E room \in Rooms, timeout \in 0..MaxTimeout : StartRun(room, timeout)
    \/ \E probe \in ProbeResults, result \in FetchOutcomes : FetchCall(probe, result)
    \/ FetchReturns
    \/ FetchRaises
    \/ Commit
    \/ Tick

Spec == Init /\ [][Next]_vars

(***************************************************************************)
(* FetchSpec: one call of fetch_camera_descriptions, the calling thread    *)
(* and the delivery thread interleaved.  A fetch keeps nothing of an       *)
(* earlier one (the client, the holder and the event are built anew at     *)
(* lines 75-86), so it is the fetch of the last Writer run that is followed.*)
(***************************************************************************)

FetchInit ==
    /\ InitIdle
    /\ runs = MaxRuns - 1
    /\ start = T2026
    /\ rootExists = TRUE /\ files = <<>> /\ latestDir = <<>>

CallerStep ==
    \/ \E probe \in ProbeResults : Construct(probe)
    \/ Register
    \/ RunClientOk
    \/ RunClientFails
    \/ SendRequest
    \/ SendRequestRaises
    \/ SetDeadline
    \/ LoopEnter
    \/ LoopTimeout
    \/ WaitSignaled
    \/ WaitSliceElapsed
    \/ TakeResult
    \/ Unregister
    \/ Shutdown
    \/ FetchEnds

CallbackStep ==
    \/ CallbackStore
    \/ CallbackSet

FetchNext ==
    \/ \E room \in Rooms, timeout \in 0..MaxTimeout : StartRun(room, timeout)
    \/ CallerStep
    \/ \E data_descs \in DataDescs : DeliverInvoke(data_descs)
    \/ CallbackStep
    \/ Tick

FetchSpec == FetchInit /\ [][FetchNext]_vars

\* a thread that can take a step takes one: the calling thread runs the fetch to its
\* end, and a callback that was entered returns
LiveSpec == FetchSpec /\ WF_vars(CallerStep) /\ WF_vars(CallbackStep)

(***************************************************************************)
(* StoreSpec: the store's queries on every directory content               *)
(***************************************************************************)

StoreInit ==
    /\ InitIdle
    /\ runs = 0
    /\ start = T2026
    /\ rootExists \in BOOLEAN
    /\ files \in (IF rootExists THEN Directories(StoreNames, MaxFiles) ELSE {<<>>})
    /\ latestDir \in (IF rootExists THEN Directories(LegacyNames, 1) ELSE {<<>>})

Query(op, room, target, result) ==
    /\ call = NoCall
    /\ call' = [op |-> op, room |-> room, target |-> target]
    /\ ret' = result
    /\ UNCHANGED <<storeVars, clockVars, fetchVars, writerVars>>

ListCalibs == \E room \in Rooms :
    Query("list_calibs", room, None, list_calibs(Root, room))

ListCalibNames == \E room \in Rooms :
    Query("list_calib_names", room, None, list_calib_names(Root, room))

LatestJsonPath == \E room \in Rooms :
    Query("latest_json_path", room, None, latest_json_path(Root, room))

LoadLatest == \E room \in Rooms :
    Query("load_latest", room, None, load_latest(Root, room))

FindCalibAtOrBefore == \E room \in Rooms, target \in Targets :
    Query("find_calib_at_or_before", room, target, find_calib_at_or_before(Root, target, room))

\* update_calib.main, lines 92-98, on the same root: the file the Writer takes for the
\* most recent existing snapshot of the room
WriterLatestExisting == \E room \in Rooms :
    Query("latest_existing", room, None, LatestExisting(files, RoomPrefix(room)))

StoreNext ==
    \/ ListCalibs
    \/ ListCalibNames
    \/ LatestJsonPath
    \/ LoadLatest
    \/ FindCalibAtOrBefore
    \/ WriterLatestExisting

StoreSpec == StoreInit /\ [][StoreNext]_vars

(***************************************************************************)
(* FuncSpec: the timestamp codec, the camera normalisation and the preset  *)
(* merge applied to enumerated arguments                                   *)
(***************************************************************************)

RoomCalib == <<"c", "a", "l", "i", "b">>
RoomAB == <<"a", "_", "b">>
\* room names, with one equal to the default prefix's stem and one extending another
AllRooms == {NoRoom, RoomA, RoomCalib, RoomAB}

\* minutes the Writer's clock may show: both sides of the %y window, a leap day,
\* single-digit and largest fields
CodecInstants ==
    {<<y, 1, 1, 0, 0>> : y \in {1969, 1970, 2000, 2026, 2068, 2069, 2070, 2100}}
    \cup {<<y, 12, 31, 23, 59>> : y \in {1969, 1999, 2026, 2068, 2069, 2099}}
    \cup {<<2024, 2, 29, 9, 5>>, <<2068, 2, 29, 12, 30>>, <<2072, 2, 29, 12, 30>>,
          T2026, <<2026, 10, 9, 7, 8>>, <<2026, 11, 30, 20, 10>>}

FuncInit ==
    /\ InitIdle
    /\ runs = 0
    /\ start = T2026
    /\ rootExists = FALSE /\ files = <<>> /\ latestDir = <<>>

\* the name update_calib.main gives a snapshot at minute t (lines 79 and 92-93), decoded
\* by the store
Codec == \E room \in AllRooms, t \in CodecInstants :
    /\ call = NoCall
    /\ call' = [op |-> "codec", room |-> room, target |-> t]
    /\ ret' = _parse_calib_timestamp(SnapshotName(room, t), room)
    /\ UNCHANGED <<storeVars, clockVars, fetchVars, writerVars>>

\* longest position or orientation a source camera description carries
MaxVec == 5

\* the first n components of a source vector, all of them non-zero
Components(n, base) == [i \in 1..n |-> base + i]

\* source camera descriptions with a position and an orientation of every length
CameraSources ==
    {[name |-> <<"c", "#", "7">>, position |-> Components(p, 0),
      orientation |-> Components(q, 10)] : p \in 0..MaxVec, q \in 0..MaxVec}

\* model definitions with no camera, one camera, and two cameras
DescInputs ==
    {[camera_list |-> <<>>]}
    \cup {[camera_list |-> <<c>>] : c \in CameraSources}
    \cup {[camera_list |-> <<c, d>>] :
            c \in {x \in CameraSources : Len(x.position) = 0},
            d \in {x \in CameraSources : Len(x.orientation) = MaxVec}}

ParseCameraDescriptions == \E data_descs \in DescInputs :
    /\ call = NoCall
    /\ call' = [op |-> "_parse_camera_descriptions", room |-> NoRoom, target |-> data_descs]
    /\ ret' = _parse_camera_descriptions(data_descs)
    /\ UNCHANGED <<storeVars, clockVars, fetchVars, writerVars>>

(***************************************************************************)
(* optitrack_python/presets: load_room                                     *)
(***************************************************************************)

CONNECTION_FIELDS == {"server_ip", "client_ip", "use_multicast"}

\* a JSON object or Python dict: a function from its keys to its values
Dict(keys, value) == [kind |-> "dict", map |-> [k \in keys |-> value]]
\* a JSON value that is not an object (a list, a string, a number)
NotADict == [kind |-> "other"]
\* the key is missing from room.json / the argument is None
Absent == [kind |-> "absent"]

\* {k: v for k, v in m.items() if k in CONNECTION_FIELDS}
FilterFields(m) == [k \in DOMAIN m \cap CONNECTION_FIELDS |-> m[k]]

\* a.update(b)
DictUpdate(a, b) ==
    [k \in DOMAIN a \cup DOMAIN b |-> IF k \in DOMAIN b THEN b[k] ELSE a[k]]

\* m.setdefault(k, v)
SetDefault(m, k, v) == IF k \in DOMAIN m THEN m ELSE DictUpdate(m, [x \in {k} |-> v])

\* raw_room.get(key, {}) followed by the isinstance check of lines 91-94
DictOrEmpty(v) == IF v.kind = "dict" THEN v.map ELSE [k \in {} |-> "none"]

\* load_room, lines 88-108, on the parsed room.json and the caller's overrides
load_room(room_name, raw_room, connection_overrides) ==
    LET room_label == IF raw_room.room.kind = "absent" THEN room_name ELSE raw_room.room.label
        defaults == DictOrEmpty(raw_room.default)
        connection == DictOrEmpty(raw_room.connection)
        merged == DictUpdate(FilterFields(defaults), FilterFields(connection))
        overridden == IF connection_overrides.kind = "dict"
                         /\ DOMAIN connection_overrides.map # {}
                      THEN DictUpdate(merged, connection_overrides.map)
                      ELSE merged
    IN [name |-> room_label,
        connection |-> SetDefault(SetDefault(SetDefault(overridden,
                            "server_ip", "localhost"), "client_ip", "auto"),
                            "use_multicast", "True")]

\* keys a preset file or an override mapping may carry: the connection fields and one
\* that is none of them
PresetKeys == CONNECTION_FIELDS \cup {"port"}

\* the values of room.json's "default" and "connection"; each value names its source
PresetSections(value) == {Dict(keys, value) : keys \in SUBSET PresetKeys} \cup {NotADict, Absent}

RawRooms ==
    {[room |-> Absent, default |-> d, connection |-> c] :
        d \in PresetSections("default"), c \in PresetSections("connection")}
    \cup {[room |-> [kind |-> "str", label |-> "lab"], default |-> Absent, connection |-> Absent]}

Overrides == {Dict(keys, "override") : keys \in SUBSET PresetKeys} \cup {Absent}

LoadRoom == \E raw_room \in RawRooms, connection_overrides \in Overrides :
    /\ call = NoCall
    /\ call' = [op |-> "load_room", room |-> RoomA,
                target |-> [raw_room |-> raw_room, overrides |-> connection_overrides]]
    /\ ret' = load_room(RoomA, raw_room, connection_overrides)
    /\ UNCHANGED <<storeVars, clockVars, fetchVars, writerVars>>

FuncNext ==
    \/ Codec
    \/ ParseCameraDescriptions
    \/ LoadRoom

FuncSpec == FuncInit /\ [][FuncNext]_vars

(***************************************************************************)
(* RoomSpec: Writer runs for several rooms on one root, then a query of    *)
(* the store for one of the rooms                                          *)
(***************************************************************************)

RoomInit ==
    /\ InitIdle
    /\ runs = 0
    /\ start = T2026
    /\ rootExists = TRUE /\ files = <<>> /\ latestDir = <<>>

\* a target later than every snapshot the runs write
RoomTarget == Datetime(<<2026, 12, 31, 23, 59>>)

\* a reader's call once the Writer runs so far are over
RoomQuery(op, room, target, result) ==
    /\ pc = "idle"
    /\ call = NoCall
    /\ call' = [op |-> op, room |-> room, target |-> target]
    /\ ret' = result
    /\ pc' = "queried"
    /\ UNCHANGED <<storeVars, clockVars, fetchVars, runVars>>

RoomListCalibs == \E room \in AllRooms :
    RoomQuery("list_calibs", room, None, list_calibs(Root, room))

RoomLatestJsonPath == \E room \in AllRooms :
    RoomQuery("latest_json_path", room, None, latest_json_path(Root, room))

RoomFindCalibAtOrBefore == \E room \in AllRooms :
    RoomQuery("find_calib_at_or_before", room, RoomTarget,
              find_calib_at_or_before(Root, RoomTarget, room))

RoomNext ==
    \/ \E room \in AllRooms, timeout \in 0..MaxTimeout : StartRun(room, timeout)
    \/ \E probe \in ProbeResults, result \in FetchOutcomes : FetchCall(probe, result)
    \/ FetchReturns
    \/ FetchRaises
    \/ Commit
    \/ Tick
    \/ RoomListCalibs
    \/ RoomLatestJsonPath
    \/ RoomFindCalibAtOrBefore

RoomSpec == RoomInit /\ [][RoomNext]_vars

(***************************************************************************)
(* Properties of the fetch (FetchSpec, LiveSpec)                           *)
(***************************************************************************)

\* every way FetchSpec leaves a fetch is one of the outcomes FetchCall draws from
FetchCallCoversFetch ==
    pc = "exit" =>
        [exc |-> exc, cameras |-> IF exc = "return" THEN fetched.cameras ELSE None]
            \in FetchOutcomes

\* C1 (as claimed): a fetch that registered the listener ends, on every exit path, with
\* the listener unregistered and the client's shutdown called.
C1_CleanupOnEveryExit ==
    pc = "exit" => (listener = None /\ shutdownCalled)

\* C2: once the deadline is computed, a fetch whose callback is never invoked ends by
\* raising the timeout error, with the listener unregistered.
C2_TimesOutWithoutDelivery ==
    (pc = "deadline" /\ deliveries = 0)
        ~> ((pc = "exit" /\ exc = "timeout" /\ listener = None) \/ deliveries > 0)

\* a fetch with a positive timeout that ended in the timeout error, never called back
C2_Witness ==
    /\ pc = "exit" /\ exc = "timeout"
    /\ deliveries = 0 /\ listener = None /\ shutdownCalled
    /\ run.timeout > 0

\* C3 (as claimed): once the calling thread has cleared the listener, the delivery
\* thread neither enters the callback nor executes a statement of it.
C3_NoCallbackAfterCleanup ==
    [][(pc \in {"shutdown", "exit"}) => (dpc' = dpc)]_vars

\* C14: within one fetch the client is constructed once, in a fresh state; the
\* listener is registered once, before the start; the client is started once, with the
\* listener registered; the request is sent once, after a successful start; shutdown is
\* called once, with the listener already unregistered; and once the fetch has failed,
\* timed out or returned, nothing is registered, started or sent again.
C14_LifecycleOrder ==
    [][/\ (pc = "fetching" /\ pc' # pc) =>
             (listener = None /\ ~started /\ ~reqSent /\ ~shutdownCalled /\ exc = "none")
       /\ (listener = None /\ listener' # None) =>
             (~started /\ ~reqSent /\ ~shutdownCalled /\ exc = "none")
       /\ (~started /\ started') => (listener # None /\ ~reqSent /\ ~shutdownCalled)
       /\ (~reqSent /\ reqSent') => (started /\ ~shutdownCalled)
       /\ (~shutdownCalled /\ shutdownCalled') => (started /\ listener = None)
       /\ exc # "none" =>
             /\ listener' # None => listener # None
             /\ started' => started
             /\ reqSent' => reqSent
       /\ shutdownCalled => (listener' = None /\ (shutdownCalled' \/ pc = "exit"))]_vars

\* a fetch that went through the whole lifecycle and returned cameras
C14_Witness ==
    /\ pc = "exit" /\ exc = "return"
    /\ started /\ reqSent /\ shutdownCalled /\ listener = None
    /\ fetched # None

\* C15 (as claimed): when the fetch raises the timeout error, the event has not been
\* set and the holder is empty.
C15_TimeoutOnlyWithoutDelivery ==
    [][(exc # "timeout" /\ exc' = "timeout") => (~event /\ holder = None)]_vars

\* C16 (as claimed): once the callback has captured a payload, the holder keeps that
\* payload until the fetch is over, whatever is delivered later.
C16_FirstPayloadKept ==
    [][(holder # None /\ pc # "exit") => (holder' = holder)]_vars

\* C21: whenever the event is set the holder contains a payload the delivery thread has
\* delivered, and the calling thread reads the holder (line 109) only with the event set,
\* so what a successful fetch parses is a delivered payload, never an absent one.
C21_SignaledImpliesPayload ==
    /\ event => holder \in DataDescs
    /\ pc = "got" => (event /\ holder \in DataDescs)
    /\ (pc \in {"finally", "shutdown", "exit"} /\ exc = "return") =>
           (event /\ fetched.cameras \in {_parse_camera_descriptions(d) : d \in DataDescs})

\* the wait has returned True after one delivery, and the holder is about to be read
C21_Witness ==
    /\ pc = "got" /\ event /\ deliveries = 1
    /\ holder \in DataDescs /\ dpc = "idle"

(***************************************************************************)
(* Properties of the Writer (Spec)                                         *)
(***************************************************************************)

\* C4 (as claimed): a run that follows a run for the same room with the same cameras,
\* server_ip and client_ip, only generated_at_utc differing, reports "unchanged" and
\* leaves the store as it was.
C4_SecondRunUnchanged ==
    (/\ pc = "idle" /\ prev # None /\ last # None
     /\ prev.outcome # "failed"
     /\ last.room = prev.room
     /\ last.payload.cameras = prev.payload.cameras
     /\ last.payload.server_ip = prev.payload.server_ip
     /\ last.payload.client_ip = prev.payload.client_ip
     /\ last.payload.generated_at_utc # prev.payload.generated_at_utc)
    => (last.outcome = "unchanged" /\ ~last.changed)

\* C5 (as claimed): a snapshot a Writer run has written stays in the store with the
\* content first written, whatever runs follow.
C5_SnapshotsImmutable ==
    [][\A n \in written : (n \in DOMAIN files' /\ files'[n] = files[n])]_vars

\* C5 (amended): a snapshot a Writer run has written is never removed, and its content
\* changes only in the commit of a run that computes the same file name.
C5_OverwriteOnlySameName ==
    [][\A n \in written :
          /\ n \in DOMAIN files'
          /\ files'[n] # files[n] =>
                /\ pc = "commit"
                /\ n = RoomPrefix(run.room) \o Strftime(GmTime(now)) \o DotJson]_vars

\* two runs for one room have each written a snapshot, and both files are in the store
C5_Witness ==
    /\ pc = "idle" /\ prev # None /\ last # None
    /\ prev.outcome = "written" /\ last.outcome = "written"
    /\ prev.room = last.room
    /\ Cardinality(written) >= 2
    /\ written \subseteq DOMAIN files

\* C10 (as claimed): when the most recent snapshot of the room does not parse as JSON,
\* the Writer run ends in that error and writes nothing.
C10_WriterPropagatesMalformed ==
    [][(/\ pc = "commit"
        /\ LatestExisting(files, RoomPrefix(run.room)) # None
        /\ files[LatestExisting(files, RoomPrefix(run.room))] = File(Malformed))
       => (outcome' = "failed" /\ files' = files)]_vars

\* C18: a Writer run whose fetch raised leaves the root directory and its files as they
\* were, and the store changes only in the step of main that follows a fetch that
\* returned.
C18_FailedFetchLeavesStore ==
    [][/\ (pc = "exit" /\ exc # "return") =>
             (files' = files /\ rootExists' = rootExists /\ latestDir' = latestDir)
       /\ (files' # files \/ rootExists' # rootExists \/ latestDir' # latestDir) =>
             (pc = "commit" /\ exc = "return")]_vars

\* a run whose fetch raised, on a root directory that does not exist
C18_Witness ==
    /\ pc = "idle" /\ runs > 0
    /\ outcome = "failed"
    /\ ~rootExists /\ files = <<>> /\ written = {}

\* C19 (as claimed): right after a Writer run has written a snapshot for a room,
\* latest_json_path for that room is the file just written and load_latest returns the
\* document just written.
C19_ReadAfterWrite ==
    (pc = "idle" /\ outcome = "written") =>
        /\ latest_json_path(Root, last.room) = RootPath(SnapshotName(last.room, GmTime(now)))
        /\ load_latest(Root, last.room) = Return(last.payload)

(***************************************************************************)
(* Properties of the store queries (StoreSpec)                             *)
(***************************************************************************)

RetNames == {PathName(ret[i]) : i \in 1..Len(ret)}

\* the prefix the specification gives a room
SpecPrefix(room) == IF room = NoRoom THEN <<"c", "a", "l", "i", "b", "_">> ELSE room \o <<"_">>

\* names listed for the room of the last call, with the timestamp each decodes to
ListedNames(root, room) ==
    {PathName(list_calibs(root, room)[i]) : i \in 1..Len(list_calibs(root, room))}

Decodable(root, room) ==
    {n \in ListedNames(root, room) : _parse_calib_timestamp(n, room) # None}

\* the root without the listed entries whose name fails to decode
WithoutUndecodable(root, room) ==
    [root EXCEPT !.files =
        [n \in DOMAIN root.files \ (ListedNames(root, room) \ Decodable(root, room))
            |-> root.files[n]]]

\* C6: find_calib_at_or_before returns a listed entry whose decoded timestamp is the
\* greatest among those <= target (the target itself when an entry has it), None when
\* no listed entry decodes to a timestamp <= target, and the same result as on the
\* root without the entries whose name fails to decode.
C6_FindAtOrBefore ==
    (call.op = "find_calib_at_or_before" /\ ParseTarget(call.target) # None) =>
        LET room == call.room
            target_dt == ParseTarget(call.target)
            eligible == {n \in Decodable(Root, room) :
                            InstLE(_parse_calib_timestamp(n, room), target_dt)}
        IN /\ ret[1] = "return"
           /\ (eligible = {}) <=> (ret[2] = None)
           /\ eligible # {} =>
                /\ ret[2][1] = "root"
                /\ PathName(ret[2]) \in eligible
                /\ \A n \in eligible :
                     InstLE(_parse_calib_timestamp(n, room),
                            _parse_calib_timestamp(PathName(ret[2]), room))
                /\ (\E n \in eligible : _parse_calib_timestamp(n, room) = target_dt)
                     => _parse_calib_timestamp(PathName(ret[2]), room) = target_dt
           /\ ret = find_calib_at_or_before(WithoutUndecodable(Root, room), call.target, room)

\* a query with two eligible entries and an undecodable one listed, whose answer is
\* not the last entry of the listing
C6_Witness ==
    /\ call.op = "find_calib_at_or_before"
    /\ ParseTarget(call.target) # None
    /\ ret[1] = "return" /\ ret[2] # None
    /\ Cardinality({n \in Decodable(Root, call.room) :
            InstLE(_parse_calib_timestamp(n, call.room), ParseTarget(call.target))}) >= 2
    /\ ListedNames(Root, call.room) # Decodable(Root, call.room)
    /\ ret[2] # list_calibs(Root, call.room)[Len(list_calibs(Root, call.room))]

\* C7 (as claimed): for any two entries list_calibs returns whose names are the
\* Writer's fixed-width encoding of their timestamp, file name order is the
\* chronological order of the decoded timestamps.
C7_NameOrderIsChronological ==
    call.op = "list_calibs" =>
        \A a \in RetNames, b \in RetNames :
            LET ta == _parse_calib_timestamp(a, call.room)
                tb == _parse_calib_timestamp(b, call.room)
            IN (/\ ta # None /\ tb # None
                /\ a = SnapshotName(call.room, ta) /\ b = SnapshotName(call.room, tb))
               => (StrLess(a, b) <=> (InstLE(ta, tb) /\ ta # tb))

\* C8: list_calibs returns exactly the regular files of the root whose name starts
\* with the room's prefix, ends with ".json" and does not contain "latest", as root
\* paths in strictly ascending name order; nothing when the root does not exist.
C8_ListCalibsExact ==
    call.op = "list_calibs" =>
        LET expected == IF ~rootExists THEN {}
                        ELSE {n \in DOMAIN files :
                                /\ files[n].kind = "file"
                                /\ StartsWith(n, SpecPrefix(call.room))
                                /\ EndsWith(n, <<".", "j", "s", "o", "n">>)
                                /\ ~Contains(n, <<"l", "a", "t", "e", "s", "t">>)}
        IN /\ RetNames = expected
           /\ Len(ret) = Cardinality(expected)
           /\ \A i \in 1..Len(ret) : ret[i] = <<"root", PathName(ret[i])>>
           /\ \A i \in 1..Len(ret), j \in 1..Len(ret) :
                i < j => StrLess(PathName(ret[i]), PathName(ret[j]))
           /\ ~rootExists => ret = <<>>

\* a listing of two entries from a root that also holds a "latest" file of the room
C8_Witness ==
    /\ call.op = "list_calibs"
    /\ Len(ret) >= 2
    /\ \E n \in DOMAIN files :
          StartsWith(n, SpecPrefix(call.room)) /\ Contains(n, Latest) /\ n \notin RetNames

C11_CodecRoundTrip ==
    call.op = "codec" => ret = call.target

\* C11 (amended): for every minute t of the years 1969 to 2068 and every room, the
\* name the Writer gives a snapshot at t decodes, with the same room, to t.
C11_CodecRoundTripInWindow ==
    (call.op = "codec" /\ call.target[1] \in 1969..2068) => ret = call.target

\* the last minute of the window, encoded for the default room, decoded to itself
C11_Witness ==
    /\ call.op = "codec" /\ call.room = NoRoom
    /\ call.target = <<2068, 12, 31, 23, 59>>
    /\ ret = call.target

\* the first Min(Len(src), n) components of out are those of src
KeepsPrefix(src, out, n) ==
    \A k \in 1..Min(Len(src), n) : k <= Len(out) /\ out[k] = src[k]

\* C12: every camera _parse_camera_descriptions produces has a position of length 3 and
\* an orientation of length 4 that start with the source's components; a short position
\* is filled up with zeros, a long source is cut to its first 3 / first 4 components.
C12_CameraVectorsNormalised ==
    call.op = "_parse_camera_descriptions" =>
        /\ Len(ret) = Len(call.target.camera_list)
        /\ \A i \in 1..Len(ret) :
              LET src == call.target.camera_list[i] IN
              /\ Len(ret[i].position) = 3
              /\ Len(ret[i].orientation) = 4
              /\ KeepsPrefix(src.position, ret[i].position, 3)
              /\ KeepsPrefix(src.orientation, ret[i].orientation, 4)
              /\ \A k \in (Len(src.position) + 1)..3 : ret[i].position[k] = 0

\* a camera with a position of length 2 and an orientation of length 5, normalised
C12_Witness ==
    /\ call.op = "_parse_camera_descriptions"
    /\ Len(call.target.camera_list) = 1
    /\ Len(call.target.camera_list[1].position) = 2
    /\ Len(call.target.camera_list[1].orientation) = 5
    /\ ret[1].position = <<1, 2, 0>>
    /\ ret[1].orientation = <<11, 12, 13, 14>>

\* the value the highest-precedence source gives key k: the caller's overrides, then the
\* preset's "connection", then its "default", then the fallback
ByPrecedence(k, raw_room, overrides) ==
    IF overrides.kind = "dict" /\ k \in DOMAIN overrides.map THEN overrides.map[k]
    ELSE IF raw_room.connection.kind = "dict" /\ k \in DOMAIN raw_room.connection.map
         THEN raw_room.connection.map[k]
    ELSE IF raw_room.default.kind = "dict" /\ k \in DOMAIN raw_room.default.map
         THEN raw_room.default.map[k]
    ELSE IF k = "server_ip" THEN "localhost"
    ELSE IF k = "client_ip" THEN "auto"
    ELSE "True"

\* C13 (as claimed): the connection load_room returns has exactly the keys server_ip,
\* client_ip and use_multicast, each with the value of the highest-precedence source
\* that defines it.
C13_ConnectionRestrictedAndMerged ==
    call.op = "load_room" =>
        /\ DOMAIN ret.connection = CONNECTION_FIELDS
        /\ \A k \in CONNECTION_FIELDS :
              ret.connection[k] = ByPrecedence(k, call.target.raw_room, call.target.overrides)

\* C17 (as claimed): the file the Writer takes for the most recent existing snapshot of
\* a room is the last element of the store's list_calibs for that room, and the Writer
\* takes none exactly when that list is empty.
C17_WriterLatestIsStoreLatest ==
    call.op = "latest_existing" =>
        LET calibs == list_calibs(Root, call.room) IN
        /\ (ret = None) <=> (calibs = <<>>)
        /\ calibs # <<>> => ret = PathName(calibs[Len(calibs)])

(***************************************************************************)
(* Properties of the rooms' namespaces (RoomSpec)                          *)
(***************************************************************************)

\* the names of the files a query returned
ReturnedNames ==
    IF call.op = "list_calibs" THEN {PathName(ret[i]) : i \in 1..Len(ret)}
    ELSE IF call.op = "latest_json_path"
         THEN (IF ret = None THEN {} ELSE {PathName(ret)})
    ELSE IF call.op = "find_calib_at_or_before" /\ ret[1] = "return" /\ ret[2] # None
         THEN {PathName(ret[2])}
    ELSE {}

\* the room the Writer run that wrote the file n was for: the "room" member of the
\* document it holds
WrittenFor(n) == JsonLoads(files[n].text)[2].room

\* C20 (as claimed): list_calibs, latest_json_path and find_calib_at_or_before for a
\* room never return a snapshot the Writer wrote for another room.
C20_RoomIsolation ==
    pc = "queried" =>
        \A n \in ReturnedNames \cap written : WrittenFor(n) = call.room

====
